---- MODULE Spec2Model ----
(***************************************************************************)
(* Sparse Gaussian-process regression of GPflow/sgpr.py: the SGPR           *)
(* (Titsias) bound and prediction, and the GPRFITC common terms, evidence   *)
(* and prediction, as a state machine over one model object.                *)
(*                                                                         *)
(* Numbers.  The program computes in float_type.  The model computes the    *)
(* exact real values the formulas denote, so that an equality or an         *)
(* inequality between two results is decided by the formulas and not by     *)
(* rounding.  Every value the pipeline produces from rational data is a     *)
(* rational multiple of the square root of a squarefree integer (a          *)
(* Cholesky factor is a rational LDL factor times the root of its           *)
(* diagonal), so a number is a record [n, d, r] standing for (n/d)*sqrt(r). *)
(* A non-finite float (NaN, +-inf) is the one value NaN, which every        *)
(* operation propagates.                                                    *)
(***************************************************************************)
EXTENDS Integers, Sequences, FiniteSets, TLC

VARIABLES
    model,      \* the SGPR or GPRFITC object: its data holders, parameters and fields
    settings,   \* settings.numerics.jitter_level
    backend,    \* how the linear-algebra kernels of the build treat a NaN pivot
    first,      \* the first evidence/predict call since the last change, when one is kept
    last        \* the evidence/predict call whose result the caller holds

vars == <<model, settings, backend, first, last>>

(***************************************************************************)
(* float_type arithmetic                                                    *)
(***************************************************************************)
Abs(i) == IF i < 0 THEN -i ELSE i

RECURSIVE Gcd(_, _)
Gcd(a, b) == IF b = 0 THEN a ELSE Gcd(b, a % b)

\* The non-finite float.
NaN == [n |-> 0, d |-> 0, r |-> 0]

IsNaN(x) == x.d = 0

\* The float (n/d)*sqrt(r) in lowest terms; r is kept squarefree by the callers.
Num(n, d, r) ==
    IF d = 0 THEN NaN
    ELSE IF n = 0 THEN [n |-> 0, d |-> 1, r |-> 1]
    ELSE LET g == Gcd(Abs(n), Abs(d))
             s == IF d < 0 THEN -1 ELSE 1
         IN  [n |-> s * (n \div g), d |-> s * (d \div g), r |-> r]

Rat(n, d) == Num(n, d, 1)

FromInt(i) == Num(i, 1, 1)

NumZero == FromInt(0)

NumOne == FromInt(1)

IsZero(x) == x.d # 0 /\ x.n = 0

\* x > 0 is false of NaN, as every float comparison with NaN is.
IsPositive(x) == x.d # 0 /\ x.n > 0

IsNegative(x) == x.d # 0 /\ x.n < 0

Neg(x) == IF IsNaN(x) THEN NaN ELSE [x EXCEPT !.n = -x.n]

\* a + b.  Two non-zero summands of the pipeline always carry the same root.
Add(a, b) ==
    CASE IsNaN(a) \/ IsNaN(b) -> NaN
      [] IsZero(a) -> b
      [] IsZero(b) -> a
      [] a.n # 0 /\ b.n # 0 /\ a.r = b.r ->
            LET g == Gcd(a.d, b.d)
            IN  Num(a.n * (b.d \div g) + b.n * (a.d \div g), (a.d \div g) * b.d, a.r)

Sub(a, b) == Add(a, Neg(b))

\* a * b: sqrt(r1)*sqrt(r2) = g*sqrt((r1/g)*(r2/g)) for g = gcd(r1, r2).
\* Common factors are cancelled before the products are formed.
Mul(a, b) ==
    IF IsNaN(a) \/ IsNaN(b) THEN NaN
    ELSE IF IsZero(a) \/ IsZero(b) THEN NumZero
    ELSE LET g == Gcd(a.r, b.r)
             g1 == Gcd(Abs(a.n), b.d)
             g2 == Gcd(Abs(b.n), a.d)
             n == (a.n \div g1) * (b.n \div g2)
             d == (a.d \div g2) * (b.d \div g1)
             gg == Gcd(g, d)
         IN  Num(n * (g \div gg), d \div gg, (a.r \div g) * (b.r \div g))

\* 1 / b = (d / (n*r)) * sqrt(r); 1 / 0 is non-finite.
Inv(b) ==
    IF IsNaN(b) \/ IsZero(b) THEN NaN
    ELSE LET g == Gcd(b.d, b.r)
         IN  Num(b.d \div g, b.n * (b.r \div g), b.r)

Div(a, b) == Mul(a, Inv(b))

Square(a) == Mul(a, a)

\* m = s*s*t with t squarefree, as <<s, t>>; m has no prime factor below k.
RECURSIVE SquarePart(_, _)
SquarePart(m, k) ==
    IF k * k > m THEN <<1, m>>
    ELSE IF m % (k * k) = 0
         THEN LET rest == SquarePart(m \div (k * k), k)
              IN  <<k * rest[1], rest[2]>>
         ELSE IF m % k = 0
              THEN LET rest == SquarePart(m \div k, k + 1)
                   IN  <<rest[1], k * rest[2]>>
              ELSE SquarePart(m, k + 1)

\* sqrt of a rational n/d in lowest terms: with n = s*s*t and d = u*u*v,
\* sqrt(n/d) = (s / (u*v)) * sqrt(t*v); of a negative number, NaN.
\* The pipeline takes roots of rationals only (Cholesky pivots, the variance).
Sqrt(a) ==
    CASE IsNaN(a) \/ IsNegative(a) -> NaN
      [] IsZero(a) -> NumZero
      [] a.n > 0 /\ a.r = 1 ->
            LET p == SquarePart(a.n, 2)
                q == SquarePart(a.d, 2)
            IN  Num(p[1], q[1] * q[2], p[2] * q[2])

\* a < b on finite rationals (false when either is NaN).
Less(a, b) == IsPositive(Sub(b, a))


(***************************************************************************)
(* Tensors.  A rank-1 tensor is a sequence of numbers, a rank-2 tensor a    *)
(* sequence of rows, a rank-3 tensor a sequence of rank-2 tensors.  An      *)
(* operation returns OK(v), or the exception it raises; an exception in an  *)
(* operand is the result.                                                   *)
(***************************************************************************)
OK(v) == [ok |-> TRUE, v |-> v]

Raise(type, op) == [ok |-> FALSE, type |-> type, op |-> op]

Try1(a, r) == IF ~a.ok THEN a ELSE r

Try2(a, b, r) == IF ~a.ok THEN a ELSE IF ~b.ok THEN b ELSE r

Max(a, b) == IF a >= b THEN a ELSE b

RECURSIVE SumSeq(_)
SumSeq(s) == IF s = <<>> THEN NumZero ELSE Add(Head(s), SumSeq(Tail(s)))

Rows(v) == Len(v)

Cols(v) == Len(v[1])

\* tf.shape of a rank-2 tensor.
tf_shape(a) == <<Rows(a.v), Cols(a.v)>>

\* The scalar operation of an elementwise operator.
Apply(op, x, y) ==
    CASE op = "add" -> Add(x, y)
      [] op = "sub" -> Sub(x, y)
      [] op = "mul" -> Mul(x, y)
      [] op = "div" -> Div(x, y)

\* An elementwise binary operation on rank-2 tensors with numpy broadcasting:
\* a dimension of size 1 is stretched; other unequal dimensions are an error.
Broadcast(op, a, b) ==
    LET ra == Rows(a)
        ca == Cols(a)
        rb == Rows(b)
        cb == Cols(b)
    IN  IF (ra = rb \/ ra = 1 \/ rb = 1) /\ (ca = cb \/ ca = 1 \/ cb = 1)
        THEN OK([i \in 1..Max(ra, rb) |->
                   [j \in 1..Max(ca, cb) |->
                      Apply(op, a[IF ra = 1 THEN 1 ELSE i][IF ca = 1 THEN 1 ELSE j],
                                b[IF rb = 1 THEN 1 ELSE i][IF cb = 1 THEN 1 ELSE j])]])
        ELSE Raise("ValueError", op)

\* rank 2 (op) rank 2
Elementwise(op, a, b) ==
    Try2(a, b, Broadcast(op, a.v, b.v))

\* rank 2 (op) rank 1: the vector is aligned with the last dimension.
ElementwiseMV(op, a, b) ==
    Try2(a, b, Broadcast(op, a.v, <<b.v>>))

\* rank 1 (op) rank 1
ElementwiseVV(op, a, b) ==
    Try2(a, b, LET r == Broadcast(op, <<a.v>>, <<b.v>>)
               IN  IF r.ok THEN OK(r.v[1]) ELSE r)

\* rank 1 (op) scalar
ElementwiseVS(op, a, s) ==
    Try2(a, s, OK([i \in 1..Len(a.v) |-> Apply(op, a.v[i], s.v)]))

\* rank 2 (op) scalar
ElementwiseMS(op, a, s) ==
    Try2(a, s, OK([i \in 1..Rows(a.v) |-> [j \in 1..Cols(a.v) |-> Apply(op, a.v[i][j], s.v)]]))

\* tf.transpose of a rank-2 tensor.
Transpose(v) == [j \in 1..Cols(v) |-> [i \in 1..Rows(v) |-> v[i][j]]]

tf_transpose(a) == Try1(a, OK(Transpose(a.v)))

\* tf.matmul(a, b, transpose_a, transpose_b): the inner dimensions must agree.
tf_matmul(a, b, transpose_a, transpose_b) ==
    Try2(a, b,
         LET x == IF transpose_a THEN Transpose(a.v) ELSE a.v
             y == IF transpose_b THEN Transpose(b.v) ELSE b.v
         IN  IF Cols(x) # Rows(y) THEN Raise("ValueError", "matmul")
             ELSE OK([i \in 1..Rows(x) |->
                        [j \in 1..Cols(y) |->
                           SumSeq([k \in 1..Cols(x) |-> Mul(x[i][k], y[k][j])])]]))

\* tf.eye(n, dtype=float_type)
tf_eye(n) == OK([i \in 1..n |-> [j \in 1..n |-> IF i = j THEN NumOne ELSE NumZero]])

\* tf.square, elementwise on a rank-2 tensor.
tf_square(a) == Try1(a, OK([i \in 1..Rows(a.v) |-> [j \in 1..Cols(a.v) |-> Square(a.v[i][j])]]))

\* tf.sqrt of a scalar.
tf_sqrt(s) == Try1(s, OK(Sqrt(s.v)))

\* tf.reduce_sum(a): the sum of all the entries of a rank-2 tensor, a scalar.
tf_reduce_sum(a) ==
    Try1(a, OK(SumSeq([i \in 1..Rows(a.v) |-> SumSeq(a.v[i])])))

\* tf.reduce_sum(v): the sum of a rank-1 tensor.
tf_reduce_sum1(a) == Try1(a, OK(SumSeq(a.v)))

\* tf.reduce_sum(a, 0): the column sums of a rank-2 tensor, a rank-1 tensor.
tf_reduce_sum0(a) ==
    Try1(a, OK([j \in 1..Cols(a.v) |-> SumSeq([i \in 1..Rows(a.v) |-> a.v[i][j]])]))

\* tf.diag_part of a square rank-2 tensor.
tf_diag_part(a) ==
    Try1(a, IF Rows(a.v) # Cols(a.v) THEN Raise("ValueError", "diag_part")
            ELSE OK([i \in 1..Rows(a.v) |-> a.v[i][i]]))

\* tf.tile(tf.expand_dims(var, 1), [1, R]) of a rank-1 tensor: S x R.
tf_tile1(a, R) == Try1(a, OK([i \in 1..Len(a.v) |-> [r \in 1..R |-> a.v[i]]]))

\* tf.tile(tf.expand_dims(var, 2), [1, 1, R]) of a rank-2 tensor: S x S x R.
tf_tile2(a, R) ==
    Try1(a, OK([i \in 1..Rows(a.v) |-> [j \in 1..Cols(a.v) |-> [r \in 1..R |-> a.v[i][j]]]]))

\* tf.expand_dims(v, 1) of a rank-1 tensor: N x 1.
tf_expand_dims1(a) == Try1(a, OK([i \in 1..Len(a.v) |-> <<a.v[i]>>]))

\* One row of the factor, entry by entry: row holds L[i][1..j-1].  An entry
\* below the diagonal is (A[i][j] - sum_k L[i][k]*L[j][k]) / L[j][j]; the pivot
\* x = A[i][i] - sum_k L[i][k]^2 ends the factorization when x <= 0.  That
\* comparison is false of a NaN pivot, which a build either lets through
\* (the factor is then NaN) or reports as a failure: nan_fails says which.
RECURSIVE CholeskyRow(_, _, _, _, _)
CholeskyRow(A, done, i, row, nan_fails) ==
    LET j == Len(row) + 1
        Lj == IF j = i THEN row ELSE done[j]
        x == Sub(A[i][j], SumSeq([k \in 1..(j - 1) |-> Mul(row[k], Lj[k])]))
    IN  IF j = i
        THEN IF IsZero(x) \/ IsNegative(x) \/ (IsNaN(x) /\ nan_fails)
             THEN <<>>
             ELSE row \o <<Sqrt(x)>> \o [k \in 1..(Len(A) - i) |-> NumZero]
        ELSE CholeskyRow(A, done, i, Append(row, Div(x, Lj[j])), nan_fails)

\* The lower-triangular L with L * L^T = A, row by row; <<>> when a pivot fails.
RECURSIVE CholeskyRows(_, _, _)
CholeskyRows(A, done, nan_fails) ==
    IF Len(done) = Len(A) THEN done
    ELSE LET row == CholeskyRow(A, done, Len(done) + 1, <<>>, nan_fails)
         IN  IF row = <<>> THEN <<>>
             ELSE CholeskyRows(A, Append(done, row), nan_fails)

\* Variant: a failed factorization is tried once more on a + I.
tf_cholesky_retry(a, nan_fails) ==
    Try1(a, IF Rows(a.v) # Cols(a.v) THEN Raise("ValueError", "cholesky")
            ELSE LET L == CholeskyRows(a.v, <<>>, nan_fails)
                     b == [i \in 1..Rows(a.v) |-> [j \in 1..Cols(a.v) |->
                             IF i = j THEN Add(a.v[i][j], NumOne) ELSE a.v[i][j]]]
                     L2 == CholeskyRows(b, <<>>, nan_fails)
                 IN  IF L # <<>> THEN OK(L)
                     ELSE IF L2 # <<>> THEN OK(L2)
                     ELSE Raise("InvalidArgumentError", "cholesky"))

\* tf.cholesky(a): InvalidArgumentError when the factorization fails.
tf_cholesky(a, nan_fails) ==
    Try1(a, IF Rows(a.v) # Cols(a.v) THEN Raise("ValueError", "cholesky")
            ELSE LET L == CholeskyRows(a.v, <<>>, nan_fails)
                 IN  IF L = <<>> THEN Raise("InvalidArgumentError", "cholesky")
                     ELSE OK(L))

\* Forward substitution L x = b: x holds x[1..i-1].
RECURSIVE ForwardSolve(_, _, _)
ForwardSolve(L, b, x) ==
    IF Len(x) = Len(b) THEN x
    ELSE LET i == Len(x) + 1
             s == Sub(b[i], SumSeq([j \in 1..(i - 1) |-> Mul(L[i][j], x[j])]))
         IN  ForwardSolve(L, b, Append(x, Div(s, L[i][i])))

\* Back substitution U x = b: x holds x[i+1..n].
RECURSIVE BackSolve(_, _, _)
BackSolve(U, b, x) ==
    IF Len(x) = Len(b) THEN x
    ELSE LET n == Len(b)
             i == n - Len(x)
             s == Sub(b[i], SumSeq([j \in 1..(n - i) |-> Mul(U[i][i + j], x[j])]))
         IN  BackSolve(U, b, <<Div(s, U[i][i])>> \o x)

\* tf.matrix_triangular_solve(matrix, rhs, lower): matrix is square and has as
\* many rows as rhs; only its lower (upper) triangle is read.
tf_matrix_triangular_solve(matrix, rhs, lower) ==
    Try2(matrix, rhs,
         IF Rows(matrix.v) # Cols(matrix.v) \/ Rows(matrix.v) # Rows(rhs.v)
         THEN Raise("ValueError", "matrix_triangular_solve")
         ELSE LET cols == Transpose(rhs.v)
                  sol == [c \in 1..Len(cols) |->
                            IF lower THEN ForwardSolve(matrix.v, cols[c], <<>>)
                            ELSE BackSolve(matrix.v, cols[c], <<>>)]
              IN  OK(Transpose(sol)))

(***************************************************************************)
(* Logarithms.  The evidence adds logarithms to rationals.  A scalar of the *)
(* evidence is q + ln(w) + k*ln(2*pi) with q and k rational and w a         *)
(* positive number of the pipeline: the record [q, w, k].  The logarithm of *)
(* a number that is not positive is non-finite.                             *)
(***************************************************************************)
LogNaN == [q |-> NaN, w |-> NumOne, k |-> NumZero]

IsLogNaN(x) == IsNaN(x.q)

LogNum(q, w, k) ==
    IF IsNaN(q) \/ IsNaN(w) \/ IsNaN(k) THEN LogNaN ELSE [q |-> q, w |-> w, k |-> k]

\* A number of the pipeline as a scalar of the evidence.
Lift(x) == LogNum(x, NumOne, NumZero)

\* tf.log of one number.
Log(x) == IF IsPositive(x) THEN LogNum(NumZero, x, NumZero) ELSE LogNaN

\* np.log(2 * np.pi)
Log2Pi == LogNum(NumZero, NumOne, NumOne)

LogAdd(a, b) ==
    IF IsLogNaN(a) \/ IsLogNaN(b) THEN LogNaN
    ELSE LogNum(Add(a.q, b.q), Mul(a.w, b.w), Add(a.k, b.k))

RECURSIVE Power(_, _)
Power(x, e) == IF e = 0 THEN NumOne ELSE Mul(x, Power(x, e - 1))

\* w^c for c an integer, or half an integer when w is rational.
PowerRat(w, c) ==
    CASE w = NumOne -> NumOne
      [] w # NumOne /\ c.d = 1 /\ c.n >= 0 -> Power(w, c.n)
      [] w # NumOne /\ c.d = 1 /\ c.n < 0 -> Inv(Power(w, -c.n))
      [] w # NumOne /\ c.d = 2 /\ w.r = 1 /\ c.n >= 0 -> Sqrt(Power(w, c.n))
      [] w # NumOne /\ c.d = 2 /\ w.r = 1 /\ c.n < 0 -> Sqrt(Inv(Power(w, -c.n)))

\* c * a for a rational c: c*(q + ln w + k*ln 2pi) = c*q + ln(w^c) + c*k*ln 2pi.
LogScale(c, a) ==
    IF IsNaN(c) \/ IsLogNaN(a) THEN LogNaN
    ELSE LogNum(Mul(c, a.q), PowerRat(a.w, c), Mul(c, a.k))

LogNeg(a) == LogScale(FromInt(-1), a)

LogSub(a, b) == LogAdd(a, LogNeg(b))

RECURSIVE LogSumSeq(_)
LogSumSeq(s) == IF s = <<>> THEN Lift(NumZero) ELSE LogAdd(Head(s), LogSumSeq(Tail(s)))

\* tf.log of a rank-1 tensor, elementwise.
tf_log(a) == Try1(a, OK([i \in 1..Len(a.v) |-> Log(a.v[i])]))

\* tf.reduce_sum of a rank-1 tensor of logarithms.
tf_reduce_sum_log(a) == Try1(a, OK(LogSumSeq(a.v)))

(***************************************************************************)
(* The collaborators of sgpr.py: the data holders, the kernel, the mean     *)
(* function.  The data X, Y, Z are matrices of integers.  The kernel is a   *)
(* linear kernel plus a constant, k(a, b) = variance * <a, b> + constant,   *)
(* and Kzx(Z, X) = K(Z, X), Kzz(Z) = K(Z, Z); the mean function is Zero.    *)
(***************************************************************************)
\* A data matrix as a float_type tensor.
Data(X) == OK([i \in 1..Len(X) |-> [j \in 1..Len(X[i]) |-> FromInt(X[i][j])]])

Scalar(x) == OK(x)

\* kern.K(A, B): rows(A) x rows(B); the columns of A and B must agree.
kern_K(kern, A, B) ==
    Elementwise("add",
                ElementwiseMS("mul", tf_matmul(A, B, FALSE, TRUE), Scalar(FromInt(kern.variance))),
                Scalar(<<<<FromInt(kern.constant)>>>>))

\* kern.Kdiag(A): the diagonal of K(A, A), a rank-1 tensor of length rows(A).
kern_Kdiag(kern, A) ==
    ElementwiseVS("add",
                  ElementwiseVS("mul", tf_reduce_sum0(tf_transpose(tf_square(A))),
                                Scalar(FromInt(kern.variance))),
                  Scalar(FromInt(kern.constant)))

kern_Kzx(kern, Z, X) == kern_K(kern, Z, X)

kern_Kzz(kern, Z) == kern_K(kern, Z, Z)

\* Zero()(X) = zeros(rows(X), 1)
mean_function(X) == Try1(X, OK([i \in 1..Rows(X.v) |-> <<NumZero>>]))

\* Scalars of the evidence, with exceptions.
Scale(c, a) == Try1(a, OK(Mul(c, a.v)))

Over(a, x) == Try1(a, OK(Div(a.v, x)))

Lifted(a) == Try1(a, OK(Lift(a.v)))

LogScaled(c, a) == Try1(a, OK(LogScale(c, a.v)))

Plus(a, b) == Try2(a, b, OK(LogAdd(a.v, b.v)))

Minus(a, b) == Try2(a, b, OK(LogSub(a.v, b.v)))

Half == Rat(1, 2)

(***************************************************************************)
(* class SGPR                                                               *)
(***************************************************************************)
\* The Cholesky factorizations a call made, in order, up to the first failure.
Factorizations(names, outs) ==
    LET RECURSIVE Upto(_)
        Upto(i) == IF i > Len(names) THEN <<>>
                   ELSE IF ~outs[i].ok /\ outs[i].op = "cholesky" /\ outs[i].type = "InvalidArgumentError"
                        THEN <<[of |-> names[i], ok |-> FALSE]>>
                        ELSE IF ~outs[i].ok THEN <<>>
                        ELSE <<[of |-> names[i], ok |-> TRUE]>> \o Upto(i + 1)
    IN  Upto(1)

\* SGPR.build_likelihood, lines 74-81 and 83: the data, the kernel matrices, sigma.
SGPR_likelihood_Kuu(m, st) ==
    [num_data |-> Rows(m.Y), output_dim |-> Cols(m.Y),
     err |-> Elementwise("sub", Data(m.Y), mean_function(Data(m.X))),
     Kdiag |-> kern_Kdiag(m.kern, Data(m.X)),
     Kuf |-> kern_Kzx(m.kern, Data(m.Z), Data(m.X)),
     Kuu |-> Elementwise("add", kern_Kzz(m.kern, Data(m.Z)),
                         ElementwiseMS("mul", tf_eye(Rows(m.Z)), Scalar(st.jitter_level))),
     sigma |-> tf_sqrt(Scalar(m.variance))]

\* line 82
SGPR_likelihood_L(t, be) ==
    t @@ [L |-> tf_cholesky(t.Kuu, be.nan_fails)]

\* line 86
SGPR_likelihood_A(t) ==
    t @@ [A |-> ElementwiseMS("div", tf_matrix_triangular_solve(t.L, t.Kuf, TRUE), t.sigma)]

\* lines 87 and 90
SGPR_likelihood_AAT(t) ==
    t @@ [AAT |-> tf_matmul(t.A, t.A, FALSE, TRUE), Aerr |-> tf_matmul(t.A, t.err, FALSE, FALSE)]

\* line 88
SGPR_likelihood_B(m, t) ==
    t @@ [B |-> Elementwise("add", t.AAT, tf_eye(Rows(m.Z)))]

\* line 89
SGPR_likelihood_LB(t, be) ==
    t @@ [LB |-> tf_cholesky(t.B, be.nan_fails)]

\* line 91, and the factorizations made
SGPR_likelihood_c(t) ==
    t @@ [c |-> ElementwiseMS("div", tf_matrix_triangular_solve(t.LB, t.Aerr, TRUE), t.sigma),
          cholesky |-> Factorizations(<<"Kuu", "B">>, <<t.L, t.LB>>)]

\* SGPR.build_likelihood, lines 74-91: the intermediate matrices.
SGPR_likelihood_terms(m, st, be) ==
    SGPR_likelihood_c(
        SGPR_likelihood_LB(
            SGPR_likelihood_B(m,
                SGPR_likelihood_AAT(
                    SGPR_likelihood_A(
                        SGPR_likelihood_L(SGPR_likelihood_Kuu(m, st), be)))),
            be))

\* Variant: the bound without its term -0.5 * output_dim * sum(Kdiag) / variance.
SGPR_bound_no_trace(m, t) ==
    Plus(Plus(Plus(Minus(Plus(
        Scalar(LogScale(Mul(Mul(Neg(Half), FromInt(t.num_data)), FromInt(t.output_dim)), Log2Pi)),
        LogScaled(Neg(FromInt(t.output_dim)), tf_reduce_sum_log(tf_log(tf_diag_part(t.LB))))),
        Scalar(LogScale(Mul(Mul(Half, FromInt(t.num_data)), FromInt(t.output_dim)),
                        Log(m.variance)))),
        Lifted(Over(Scale(Neg(Half), tf_reduce_sum(tf_square(t.err))), m.variance))),
        Lifted(Scale(Half, tf_reduce_sum(tf_square(t.c))))),
        Lifted(Scale(Mul(Half, FromInt(t.output_dim)), tf_reduce_sum1(tf_diag_part(t.AAT)))))

\* SGPR.build_likelihood, lines 94-100: the bound from the intermediates, its
\* seven terms in the order of the source.
SGPR_bound(m, t) ==
    Plus(Plus(Plus(Plus(Minus(Plus(
        Scalar(LogScale(Mul(Mul(Neg(Half), FromInt(t.num_data)), FromInt(t.output_dim)), Log2Pi)),
        LogScaled(Neg(FromInt(t.output_dim)), tf_reduce_sum_log(tf_log(tf_diag_part(t.LB))))),
        Scalar(LogScale(Mul(Mul(Half, FromInt(t.num_data)), FromInt(t.output_dim)),
                        Log(m.variance)))),
        Lifted(Over(Scale(Neg(Half), tf_reduce_sum(tf_square(t.err))), m.variance))),
        Lifted(Scale(Half, tf_reduce_sum(tf_square(t.c))))),
        Lifted(Over(Scale(Mul(Neg(Half), FromInt(t.output_dim)), tf_reduce_sum1(t.Kdiag)),
                    m.variance))),
        Lifted(Scale(Mul(Half, FromInt(t.output_dim)), tf_reduce_sum1(tf_diag_part(t.AAT)))))

\* What build_likelihood returns, line 102, with the intermediates it was computed from.
SGPR_likelihood_return(m, t) ==
    [op |-> "build_likelihood", Xnew |-> <<>>, full_cov |-> FALSE, before |-> m,
     out |-> SGPR_bound(m, t), terms |-> t,
     num_data |-> t.num_data, num_latent |-> t.output_dim]

\* SGPR.build_likelihood
SGPR_build_likelihood(m, st, be) ==
    SGPR_likelihood_return(m, SGPR_likelihood_terms(m, st, be))

\* Variant: the intermediates of build_predict with Kuu left without its jitter.
SGPR_predict_Kuu_no_jitter(m, st, Xnew) ==
    [err |-> Elementwise("sub", Data(m.Y), mean_function(Data(m.X))),
     Kuf |-> kern_Kzx(m.kern, Data(m.Z), Data(m.X)),
     Kuu |-> kern_Kzz(m.kern, Data(m.Z)),
     Kus |-> kern_Kzx(m.kern, Data(m.Z), Data(Xnew)),
     sigma |-> tf_sqrt(Scalar(m.variance))]

\* SGPR.build_predict, lines 110-115: the data, the kernel matrices, sigma.
SGPR_predict_Kuu(m, st, Xnew) ==
    [err |-> Elementwise("sub", Data(m.Y), mean_function(Data(m.X))),
     Kuf |-> kern_Kzx(m.kern, Data(m.Z), Data(m.X)),
     Kuu |-> Elementwise("add", kern_Kzz(m.kern, Data(m.Z)),
                         ElementwiseMS("mul", tf_eye(Rows(m.Z)), Scalar(st.jitter_level))),
     Kus |-> kern_Kzx(m.kern, Data(m.Z), Data(Xnew)),
     sigma |-> tf_sqrt(Scalar(m.variance))]

\* line 116
SGPR_predict_L(t, be) ==
    t @@ [L |-> tf_cholesky(t.Kuu, be.nan_fails)]

\* lines 117 and 122
SGPR_predict_A(t) ==
    t @@ [A |-> ElementwiseMS("div", tf_matrix_triangular_solve(t.L, t.Kuf, TRUE), t.sigma),
          tmp1 |-> tf_matrix_triangular_solve(t.L, t.Kus, TRUE)]

\* lines 118 and 120
SGPR_predict_B(m, t) ==
    t @@ [B |-> Elementwise("add", tf_matmul(t.A, t.A, FALSE, TRUE), tf_eye(Rows(m.Z))),
          Aerr |-> tf_matmul(t.A, t.err, FALSE, FALSE)]

\* line 119
SGPR_predict_LB(t, be) ==
    t @@ [LB |-> tf_cholesky(t.B, be.nan_fails)]

\* lines 121 and 123, and the factorizations made
SGPR_predict_c(t) ==
    t @@ [c |-> ElementwiseMS("div", tf_matrix_triangular_solve(t.LB, t.Aerr, TRUE), t.sigma),
          tmp2 |-> tf_matrix_triangular_solve(t.LB, t.tmp1, TRUE),
          cholesky |-> Factorizations(<<"Kuu", "B">>, <<t.L, t.LB>>)]

\* line 124
SGPR_predict_mean(t) ==
    t @@ [mean |-> tf_matmul(t.tmp2, t.c, TRUE, FALSE)]

\* SGPR.build_predict, lines 110-124: the intermediate matrices and the mean.
SGPR_predict_terms(m, st, be, Xnew) ==
    SGPR_predict_mean(
        SGPR_predict_c(
            SGPR_predict_LB(
                SGPR_predict_B(m,
                    SGPR_predict_A(
                        SGPR_predict_L(SGPR_predict_Kuu(m, st, Xnew), be))),
                be)))

\* Variant: the variance tiled num_latent times, the count taken at construction.
SGPR_var_num_latent(m, t, Xnew, full_cov) ==
    IF full_cov
    THEN tf_tile2(Elementwise("sub",
                      Elementwise("add", kern_K(m.kern, Data(Xnew), Data(Xnew)),
                                  tf_matmul(t.tmp2, t.tmp2, TRUE, FALSE)),
                      tf_matmul(t.tmp1, t.tmp1, TRUE, FALSE)),
                  m.num_latent)
    ELSE tf_tile1(ElementwiseVV("sub",
                      ElementwiseVV("add", kern_Kdiag(m.kern, Data(Xnew)),
                                    tf_reduce_sum0(tf_square(t.tmp2))),
                      tf_reduce_sum0(tf_square(t.tmp1))),
                  m.num_latent)

\* SGPR.build_predict, lines 125-134: the variance, full or diagonal.
SGPR_var(m, t, Xnew, full_cov) ==
    IF full_cov
    THEN tf_tile2(Elementwise("sub",
                      Elementwise("add", kern_K(m.kern, Data(Xnew), Data(Xnew)),
                                  tf_matmul(t.tmp2, t.tmp2, TRUE, FALSE)),
                      tf_matmul(t.tmp1, t.tmp1, TRUE, FALSE)),
                  Cols(m.Y))
    ELSE tf_tile1(ElementwiseVV("sub",
                      ElementwiseVV("add", kern_Kdiag(m.kern, Data(Xnew)),
                                    tf_reduce_sum0(tf_square(t.tmp2))),
                      tf_reduce_sum0(tf_square(t.tmp1))),
                  Cols(m.Y))

\* The pair (mean, var) of a prediction, or the exception.
Returned(mean, var) == Try2(mean, var, OK([mean |-> mean.v, var |-> var.v]))

\* What build_predict returns, line 135, with the intermediates it was computed from.
SGPR_predict_return(m, t, Xnew, full_cov) ==
    [op |-> "build_predict", Xnew |-> Xnew, full_cov |-> full_cov, before |-> m,
     out |-> Returned(Elementwise("add", t.mean, mean_function(Data(Xnew))),
                      SGPR_var(m, t, Xnew, full_cov)),
     terms |-> t]

\* SGPR.build_predict
SGPR_build_predict(m, st, be, Xnew, full_cov) ==
    SGPR_predict_return(m, SGPR_predict_terms(m, st, be, Xnew), Xnew, full_cov)

(***************************************************************************)
(* class GPRFITC                                                            *)
(***************************************************************************)
\* GPRFITC.build_common_terms, lines 173-177: the data and the kernel matrices.
GPRFITC_common_Kuu(m, st) ==
    [err |-> Elementwise("sub", Data(m.Y), mean_function(Data(m.X))),
     Kdiag |-> kern_Kdiag(m.kern, Data(m.X)),
     Kuf |-> kern_Kzx(m.kern, Data(m.Z), Data(m.X)),
     Kuu |-> Elementwise("add", kern_Kzz(m.kern, Data(m.Z)),
                         ElementwiseMS("mul", tf_eye(Rows(m.Z)), Scalar(st.jitter_level)))]

\* line 179
GPRFITC_common_Luu(t, be) ==
    t @@ [Luu |-> tf_cholesky(t.Kuu, be.nan_fails)]

\* line 180
GPRFITC_common_V(t) ==
    t @@ [V |-> tf_matrix_triangular_solve(t.Luu, t.Kuf, TRUE)]

\* lines 182-183
GPRFITC_common_nu(m, t) ==
    t @@ [nu |-> ElementwiseVS("add",
                     ElementwiseVV("sub", t.Kdiag, tf_reduce_sum0(tf_square(t.V))),
                     Scalar(m.variance))]

\* lines 185 and 187
GPRFITC_common_B(m, t) ==
    t @@ [B |-> Elementwise("add", tf_eye(Rows(m.Z)),
                            tf_matmul(ElementwiseMV("div", t.V, t.nu), t.V, FALSE, TRUE)),
          beta |-> Elementwise("div", t.err, tf_expand_dims1(t.nu))]

\* lines 186 and 188
GPRFITC_common_L(t, be) ==
    t @@ [L |-> tf_cholesky(t.B, be.nan_fails),
          alpha |-> tf_matmul(t.V, t.beta, FALSE, FALSE)]

\* line 190, and the factorizations made
GPRFITC_common_gamma(t) ==
    t @@ [gamma |-> tf_matrix_triangular_solve(t.L, t.alpha, TRUE),
          cholesky |-> Factorizations(<<"Kuu", "B">>, <<t.Luu, t.L>>)]

\* GPRFITC.build_common_terms
GPRFITC_build_common_terms(m, st, be) ==
    GPRFITC_common_gamma(
        GPRFITC_common_L(
            GPRFITC_common_B(m,
                GPRFITC_common_nu(m,
                    GPRFITC_common_V(
                        GPRFITC_common_Luu(GPRFITC_common_Kuu(m, st), be)))),
            be))

\* GPRFITC.build_likelihood, lines 218-236: the evidence from the common terms.
GPRFITC_evidence(m, t, num_data, num_latent) ==
    LET mahalanobisTerm ==
            Plus(Lifted(Scale(Neg(Half),
                              tf_reduce_sum(Elementwise("div", tf_square(t.err),
                                                        tf_expand_dims1(t.nu))))),
                 Lifted(Scale(Half, tf_reduce_sum(tf_square(t.gamma)))))
        logNormalizingTerm ==
            Plus(Scalar(LogScale(Mul(Neg(Half), FromInt(num_data)), Log2Pi)),
                 Minus(LogScaled(Neg(Half), tf_reduce_sum_log(tf_log(t.nu))),
                       tf_reduce_sum_log(tf_log(tf_diag_part(t.L)))))
    IN  Plus(mahalanobisTerm, LogScaled(FromInt(num_latent), logNormalizingTerm))

\* What build_likelihood returns, line 236, with the common terms.
GPRFITC_likelihood_return(m, t) ==
    [op |-> "build_likelihood", Xnew |-> <<>>, full_cov |-> FALSE, before |-> m,
     out |-> GPRFITC_evidence(m, t, m.num_data, m.num_latent), terms |-> t,
     num_data |-> m.num_data, num_latent |-> m.num_latent]

\* GPRFITC.build_likelihood
GPRFITC_build_likelihood(m, st, be) ==
    GPRFITC_likelihood_return(m, GPRFITC_build_common_terms(m, st, be))

\* Variant: the diagonal branch with the signs of its last two terms exchanged.
GPRFITC_var_signs(m, w, intermediateA, Xnew, full_cov) ==
    IF full_cov
    THEN tf_tile2(Elementwise("add",
                      Elementwise("sub", kern_K(m.kern, Data(Xnew), Data(Xnew)),
                                  tf_matmul(w, w, TRUE, FALSE)),
                      tf_matmul(intermediateA, intermediateA, TRUE, FALSE)),
                  Cols(m.Y))
    ELSE tf_tile1(ElementwiseVV("sub",
                      ElementwiseVV("add", kern_Kdiag(m.kern, Data(Xnew)),
                                    tf_reduce_sum0(tf_square(w))),
                      tf_reduce_sum0(tf_square(intermediateA))),
                  Cols(m.Y))

\* GPRFITC.build_predict, lines 252-259: the variance, full or diagonal.
GPRFITC_var(m, w, intermediateA, Xnew, full_cov) ==
    IF full_cov
    THEN tf_tile2(Elementwise("add",
                      Elementwise("sub", kern_K(m.kern, Data(Xnew), Data(Xnew)),
                                  tf_matmul(w, w, TRUE, FALSE)),
                      tf_matmul(intermediateA, intermediateA, TRUE, FALSE)),
                  Cols(m.Y))
    ELSE tf_tile1(ElementwiseVV("add",
                      ElementwiseVV("sub", kern_Kdiag(m.kern, Data(Xnew)),
                                    tf_reduce_sum0(tf_square(w))),
                      tf_reduce_sum0(tf_square(intermediateA))),
                  Cols(m.Y))

\* GPRFITC.build_predict, lines 248-260, from the common terms and w.
GPRFITC_predict_return(m, t, w, Xnew, full_cov) ==
    [op |-> "build_predict", Xnew |-> Xnew, full_cov |-> full_cov, before |-> m,
     out |-> Returned(
                 Elementwise("add",
                     tf_matmul(w, tf_matrix_triangular_solve(tf_transpose(t.L), t.gamma, FALSE),
                               TRUE, FALSE),
                     mean_function(Data(Xnew))),
                 GPRFITC_var(m, w, tf_matrix_triangular_solve(t.L, w, TRUE), Xnew, full_cov)),
     terms |-> t]

\* GPRFITC.build_predict, lines 243-246: the common terms, Kus and w.
GPRFITC_predict_w(m, t, Xnew, full_cov) ==
    GPRFITC_predict_return(
        m, t, tf_matrix_triangular_solve(t.Luu, kern_Kzx(m.kern, Data(m.Z), Data(Xnew)), TRUE),
        Xnew, full_cov)

\* GPRFITC.build_predict
GPRFITC_build_predict(m, st, be, Xnew, full_cov) ==
    GPRFITC_predict_w(m, GPRFITC_build_common_terms(m, st, be), Xnew, full_cov)

(***************************************************************************)
(* The model object and its callers.                                        *)
(***************************************************************************)
XValues == { <<<<1>>>>, <<<<0>>, <<1>>>>, <<<<1, 0>>>> }

YValues == { <<<<1>>>>, <<<<1>>, <<2>>>>, <<<<1, 0>>, <<2, 1>>>> }

ZValues == { <<<<1>>>>, <<<<1>>, <<2>>>>, <<<<0>>, <<0>>>>, <<<<1, 0>>>> }

XnewValues == { <<<<0>>, <<2>>>>, <<<<0, 1>>>> }

VarianceValues == { FromInt(2), FromInt(-1) }

JitterLevels == { NumZero, NumOne }

Kernels == { [variance |-> 1, constant |-> 1] }

\* No call recorded.
None == [op |-> "none"]

\* The first call is not kept.
Off == [op |-> "off"]

\* SGPR.__init__
SGPR_init(X, Y, kern, Z) ==
    [class |-> "SGPR", X |-> X, Y |-> Y, kern |-> kern, mean_function |-> "Zero",
     variance |-> NumOne, Z |-> Z, num_data |-> Len(X), num_latent |-> Len(Y[1])]

\* GPRFITC.__init__
GPRFITC_init(X, Y, kern, Z) ==
    [class |-> "GPRFITC", X |-> X, Y |-> Y, kern |-> kern, mean_function |-> "Zero",
     variance |-> NumOne, Z |-> Z, num_data |-> Len(X), num_latent |-> Len(Y[1])]

Constructed ==
    /\ \E X \in XValues, Y \in YValues, Z \in ZValues, kern \in Kernels :
          model \in {SGPR_init(X, Y, kern, Z), GPRFITC_init(X, Y, kern, Z)}
    /\ \E j \in JitterLevels : settings = [jitter_level |-> j]
    /\ \E b \in BOOLEAN : backend = [nan_fails |-> b]
    /\ last = None

Init == Constructed /\ first = Off

InitRecording == Constructed /\ first = None

\* A change of data or parameters: the recorded calls are of the old values.
Changed ==
    /\ first' = IF first = Off THEN Off ELSE None
    /\ last' = None
    /\ UNCHANGED <<settings, backend>>

\* model.X = X: the data holder takes the new array whatever its shape
\* (on_shape_change='pass').
SetX ==
    /\ \E X \in XValues \ {model.X} : model' = [model EXCEPT !.X = X]
    /\ Changed

\* model.Y = Y
SetY ==
    /\ \E Y \in YValues \ {model.Y} : model' = [model EXCEPT !.Y = Y]
    /\ Changed

\* model.likelihood.variance = v
SetVariance ==
    /\ \E v \in VarianceValues \ {model.variance} : model' = [model EXCEPT !.variance = v]
    /\ Changed

\* Variant: a call whose Cholesky factorization failed leaves a jitter level
\* of one behind for the calls that follow.
CalledRaisingJitter(call) ==
    /\ last = None
    /\ IF first = None
       THEN first' = call /\ last' = last
       ELSE first' = first /\ last' = call
    /\ settings' = IF ~call.out.ok /\ call.out.op = "cholesky"
                   THEN [jitter_level |-> NumOne] ELSE settings
    /\ UNCHANGED <<model, backend>>

\* Variant: a call refreshes num_data and num_latent from the data it read.
CalledRefreshing(call) ==
    /\ last = None
    /\ IF first = None
       THEN first' = call /\ last' = last
       ELSE first' = first /\ last' = call
    /\ model' = [model EXCEPT !.num_data = Rows(model.X), !.num_latent = Cols(model.Y)]
    /\ UNCHANGED <<settings, backend>>

\* A call returns to a caller that holds no earlier result; the model object
\* is as it was.  The first call since the last change is kept aside.
Called(call) ==
    /\ last = None
    /\ IF first = None
       THEN first' = call /\ last' = last
       ELSE first' = first /\ last' = call
    /\ UNCHANGED <<model, settings, backend>>

SGPR_Evidence ==
    /\ model.class = "SGPR"
    /\ Called(SGPR_build_likelihood(model, settings, backend))

SGPR_Predict ==
    /\ model.class = "SGPR"
    /\ \E Xnew \in XnewValues, full_cov \in BOOLEAN :
          Called(SGPR_build_predict(model, settings, backend, Xnew, full_cov))

GPRFITC_Evidence ==
    /\ model.class = "GPRFITC"
    /\ Called(GPRFITC_build_likelihood(model, settings, backend))

GPRFITC_Predict ==
    /\ model.class = "GPRFITC"
    /\ \E Xnew \in XnewValues, full_cov \in BOOLEAN :
          Called(GPRFITC_build_predict(model, settings, backend, Xnew, full_cov))

\* The caller drops the result it holds.
Discard ==
    /\ last # None
    /\ last' = None
    /\ UNCHANGED <<model, settings, backend, first>>

Next ==
    \/ Discard
    \/ SetX
    \/ SetY
    \/ SetVariance
    \/ SGPR_Evidence
    \/ SGPR_Predict
    \/ GPRFITC_Evidence
    \/ GPRFITC_Predict

Spec == Init /\ [][Next]_vars

SpecRecording == InitRecording /\ [][Next]_vars

(***************************************************************************)
(* Properties                                                               *)
(***************************************************************************)
IsEvidence(call) == call.op = "build_likelihood"

IsPredict(call) == call.op = "build_predict"

\* The data-model invariants: N = rows(X) = rows(Y) and columns(Z) = D = columns(X).
WellShaped(m) == Rows(m.X) = Rows(m.Y) /\ Cols(m.Z) = Cols(m.X)

\* The parameters and the data of a model object.
Params(m) == [class |-> m.class, X |-> m.X, Y |-> m.Y, Z |-> m.Z, kern |-> m.kern,
              mean_function |-> m.mean_function, variance |-> m.variance]

\* v is a matrix of the given shape.
IsMatrix(v, rows, cols) == Len(v) = rows /\ \A i \in 1..Len(v) : Len(v[i]) = cols

\* v is a three-dimensional array of the given shape.
IsCube(v, n1, n2, n3) == Len(v) = n1 /\ \A i \in 1..Len(v) : IsMatrix(v[i], n2, n3)

\* C1: a prediction returned for well-shaped X (N x D), Y (N x R), Z (M x D) and
\* Xnew (S x D) has a mean of shape S x R and a variance of shape S x S x R
\* when full_cov is true and S x R when it is false, R being the number of
\* columns of the Y the model holds at the call.
C1_PredictShapes ==
    (IsPredict(last) /\ WellShaped(model) /\ Cols(last.Xnew) = Cols(model.X) /\ last.out.ok)
    => LET S == Rows(last.Xnew)
           R == Cols(model.Y)
       IN  /\ IsMatrix(last.out.v.mean, S, R)
           /\ IF last.full_cov THEN IsCube(last.out.v.var, S, S, R)
                               ELSE IsMatrix(last.out.v.var, S, R)

\* A full-covariance prediction at two points for two output columns, by a
\* model whose Y was replaced by one with more columns.
C1_Witness ==
    /\ IsPredict(last) /\ WellShaped(model) /\ last.out.ok /\ last.full_cov
    /\ Rows(last.Xnew) = 2 /\ Cols(model.Y) = 2 /\ model.num_latent = 1
    /\ IsCube(last.out.v.var, 2, 2, 2)

\* The two predictions of a pair of calls at the same Xnew, one with full_cov
\* and one without.
FullAndDiagonal ==
    /\ IsPredict(first) /\ IsPredict(last)
    /\ first.Xnew = last.Xnew /\ first.full_cov # last.full_cov
    /\ Params(first.before) = Params(last.before)
    /\ first.out.ok /\ last.out.ok

\* C2: for the same parameters and the same Xnew, the diagonal of the
\* full-covariance variance is the diagonal-only variance:
\* var_full[s][s][r] = var_diag[s][r] for every test point s and output r.
C2_DiagonalAgrees ==
    FullAndDiagonal
    => LET full == IF first.full_cov THEN first.out.v.var ELSE last.out.v.var
           diag == IF first.full_cov THEN last.out.v.var ELSE first.out.v.var
       IN  \A s \in 1..Len(diag) : \A r \in 1..Len(diag[s]) : full[s][s][r] = diag[s][r]

\* A full and a diagonal prediction of GPRFITC at two test points, with finite
\* variances that are not all equal.
C2_Witness ==
    /\ FullAndDiagonal /\ model.class = "GPRFITC" /\ first.full_cov
    /\ Rows(last.Xnew) = 2
    /\ ~IsNaN(last.out.v.var[1][1]) /\ last.out.v.var[1][1] # last.out.v.var[2][1]
    /\ first.out.v.var[1][2][1] # first.out.v.var[1][1][1]

\* log p(Y | X) of exact Gaussian-process regression with the model's kernel,
\* mean function and noise variance: the columns of Y are independent
\* N(mean, K(X, X) + variance * I).
ExactLogMarginalLikelihood(m) ==
    LET N == Rows(m.X)
        R == Cols(m.Y)
        Kff == Elementwise("add", kern_K(m.kern, Data(m.X), Data(m.X)),
                           ElementwiseMS("mul", tf_eye(N), Scalar(m.variance)))
        L == tf_cholesky(Kff, FALSE)
        a == tf_matrix_triangular_solve(
                 L, Elementwise("sub", Data(m.Y), mean_function(Data(m.X))), TRUE)
        e1 == Scalar(LogScale(Mul(Mul(Neg(Half), FromInt(N)), FromInt(R)), Log2Pi))
        e2 == Plus(e1, LogScaled(Neg(FromInt(R)), tf_reduce_sum_log(tf_log(tf_diag_part(L)))))
        e3 == Plus(e2, Lifted(Scale(Neg(Half), tf_reduce_sum(tf_square(a)))))
    IN  e3

\* a <= b for two scalars q + ln(w) + k*ln(2*pi) with the same k, shown by
\* ln(x) <= x - 1: with x = a.w / b.w and t = b.q - a.q, x <= 1 + t implies
\* ln(a.w) - ln(b.w) <= t.  x is a surd and 1 + t a rational, compared by
\* their squares.  TRUE only when a <= b.
LogLeq(a, b) ==
    /\ ~IsLogNaN(a) /\ ~IsLogNaN(b)
    /\ a.k = b.k
    /\ LET x == Div(a.w, b.w)
           u == Add(NumOne, Sub(b.q, a.q))
       IN  IsPositive(u) /\ ~IsPositive(Sub(Square(x), Square(u)))

\* An evidence returned by SGPR for well-shaped data and a positive noise variance.
ValidBound ==
    /\ model.class = "SGPR" /\ IsEvidence(last) /\ last.out.ok
    /\ WellShaped(model) /\ IsPositive(model.variance)

C3_WitnessBelow ==
    /\ ValidBound /\ Rows(model.Z) < Rows(model.X) /\ Cols(model.Y) = 2
    /\ last.out.v # ExactLogMarginalLikelihood(model).v
    /\ LogLeq(last.out.v, ExactLogMarginalLikelihood(model).v)

\* A pair of calls of the same operation with the same arguments on the same
\* parameters and data, the second made after the first had returned.
SameCallTwice ==
    /\ first # None /\ last # None
    /\ first.op = last.op /\ first.Xnew = last.Xnew /\ first.full_cov = last.full_cov
    /\ Params(first.before) = Params(last.before)

NonPositiveNu ==
    /\ model.class = "GPRFITC" /\ WellShaped(model) /\ last # None /\ last.terms.nu.ok
    /\ \E i \in 1..Len(last.terms.nu.v) :
          IsZero(last.terms.nu.v[i]) \/ IsNegative(last.terms.nu.v[i])

\* C5: a GPRFITC evidence or predict call whose nu has a non-positive entry
\* ends in an error and returns no evidence value and no prediction.
C5_NonPositiveNuFails == NonPositiveNu => ~last.out.ok

\* C6: no evidence value and no prediction is returned by a model whose shapes
\* violate rows(X) = rows(Y) or columns(Z) = columns(X), whether it was
\* constructed so or its X or Y was replaced.
C6_NoResultFromMismatchedShapes == (last # None /\ ~WellShaped(model)) => ~last.out.ok

\* The matrix without its first row and its j-th column.
Without(A, j) ==
    [i \in 1..(Len(A) - 1) |-> [k \in 1..(Len(A) - 1) |-> A[i + 1][IF k < j THEN k ELSE k + 1]]]

\* The determinant, by expansion along the first row.
RECURSIVE Det(_)
Det(A) ==
    IF Len(A) = 1 THEN A[1][1]
    ELSE SumSeq([j \in 1..Len(A) |->
                    Mul(IF j % 2 = 1 THEN A[1][j] ELSE Neg(A[1][j]), Det(Without(A, j)))])

\* A symmetric matrix of finite entries that is not positive definite: one of
\* its leading principal minors is not positive.
NotPositiveDefinite(a) ==
    /\ a.ok
    /\ \A i \in 1..Len(a.v) : \A j \in 1..Len(a.v) : ~IsNaN(a.v[i][j])
    /\ \E k \in 1..Len(a.v) :
          ~IsPositive(Det([i \in 1..k |-> [j \in 1..k |-> a.v[i][j]]]))

CholeskyError == Raise("InvalidArgumentError", "cholesky")

\* C7: a call in which the factorization of Kzz + jitter*I or of B fails ends
\* in an error and returns no value; no matrix is factorized twice in a call.
C7_FailedFactorizationEndsCall ==
    last # None
    => /\ NotPositiveDefinite(last.terms.Kuu) => ~last.out.ok
       /\ NotPositiveDefinite(last.terms.B) => ~last.out.ok
       /\ (\E i \in DOMAIN last.terms.cholesky : ~last.terms.cholesky[i].ok)
             => ~last.out.ok
       /\ \A i, j \in DOMAIN last.terms.cholesky :
             i # j => last.terms.cholesky[i].of # last.terms.cholesky[j].of

\* A call that failed on a Kzz + jitter*I that is not positive definite.
C7_Witness ==
    /\ last # None /\ NotPositiveDefinite(last.terms.Kuu)
    /\ last.terms.cholesky = <<[of |-> "Kuu", ok |-> FALSE]>>
    /\ last.out = CholeskyError

\* A call that failed on a B that is not positive definite, after Kuu was factorized.
C7_WitnessB ==
    /\ last # None /\ NotPositiveDefinite(last.terms.B)
    /\ last.terms.cholesky = <<[of |-> "Kuu", ok |-> TRUE], [of |-> "B", ok |-> FALSE]>>
    /\ last.out = CholeskyError

\* C8: an evidence or predict call, successful or failed, leaves Z, the noise
\* variance, the kernel and mean function, X, Y, num_data and num_latent, and
\* everything else a later call reads, as they were.
C8_CallsLeaveModel ==
    [][((last = None /\ last' # None) \/ (first = None /\ first' # None))
          => (model' = model /\ settings' = settings /\ backend' = backend)]_vars

\* A failed call on a GPRFITC whose X was replaced by one with another number
\* of rows: num_data is still the count taken at construction.
C8_Witness ==
    /\ last # None /\ ~last.out.ok /\ last.before = model
    /\ model.class = "GPRFITC" /\ model.num_data # Rows(model.X)

\* C9: the N and R that scale the terms of an evidence are the numbers of rows
\* and of columns of the Y the model holds at the evaluation, for well-shaped
\* data after any replacements of X and Y.
C9_EvidenceScaledByCurrentY ==
    (IsEvidence(last) /\ last.out.ok /\ WellShaped(model))
    => (last.num_data = Rows(model.Y) /\ last.num_latent = Cols(model.Y))

\* A pair of calls of SGPR on the same parameters, one evidence and one prediction.
EvidenceAndPredict ==
    /\ model.class = "SGPR" /\ first # None /\ last # None
    /\ first.op # last.op
    /\ Params(first.before) = Params(last.before)

\* C10: on the same parameters, the intermediates err, Kuu, L, A, B, LB and c
\* of SGPR.build_predict have the values they have in SGPR.build_likelihood.
C10_SameIntermediates ==
    EvidenceAndPredict
    => /\ first.terms.err = last.terms.err
       /\ first.terms.Kuu = last.terms.Kuu
       /\ first.terms.L = last.terms.L
       /\ first.terms.A = last.terms.A
       /\ first.terms.B = last.terms.B
       /\ first.terms.LB = last.terms.LB
       /\ first.terms.c = last.terms.c

\* An evidence and then a prediction with two inducing points and a positive
\* jitter level, c computed in both.
C10_Witness ==
    /\ EvidenceAndPredict /\ IsEvidence(first) /\ IsPredict(last)
    /\ Rows(model.Z) = 2 /\ IsPositive(settings.jitter_level)
    /\ last.terms.c.ok /\ first.terms.c.ok /\ model.variance = FromInt(2)
====
